---- MODULE Spec2Model ----
\* A model of the GSConnect WebExtension: the background script
\* (src/webextension/eslint.config.mjs, the code after the ESLint preamble)
\* and the rendering and the URL classification of the popup script
\* (src/unnamed/part_000).
EXTENDS Integers, Sequences, FiniteSets, TLC

\* ---------------------------------------------------------------- bounds

\* Channels opened by connectNative in one behaviour.
MaxPorts == 2
\* storage.local.set calls issued and not yet completed.
MaxWrites == 2
\* 'devices' messages handled in one behaviour.
MaxDevMsgs == 2
\* Handlers suspended on a tabs.query / tabs.get at one time.
MaxSuspended == 1
\* Timer callbacks executing at one time.
MaxRebuilds == 2
\* Saturation of the count of triggers since the last timer expiry.
MaxBurst == 2

\* ------------------------------------------------------------ JSON values

\* A JSON-like value: undefined, a boolean, an array of device ids, a string,
\* or the payload object of a 'share' request (its fields in l).
Undef == [t |-> "undefined", b |-> FALSE, l |-> <<>>]
JBool(x) == [t |-> "boolean", b |-> x, l |-> <<>>]
JList(s) == [t |-> "array", b |-> FALSE, l |-> s]
JStr(s) == [t |-> "string", b |-> FALSE, l |-> s]
JObj(s) == [t |-> "object", b |-> FALSE, l |-> s]

\* A message: shape "null" (null / undefined), "prim" (a non-object) or
\* "object"; tstr says whether message.type is a string.
Msg(ty, d) == [shape |-> "object", tstr |-> TRUE, type |-> ty, data |-> d]
MsgNull == [shape |-> "null", tstr |-> FALSE, type |-> "", data |-> Undef]
MsgPrim == [shape |-> "prim", tstr |-> FALSE, type |-> "", data |-> Undef]
MsgNoType == [shape |-> "object", tstr |-> FALSE, type |-> "", data |-> Undef]
NoMsg == [shape |-> "none", tstr |-> FALSE, type |-> "", data |-> Undef]

\* The device lists the companion process reports.
DeviceLists == {<<>>, <<"a", "b">>}

\* What the companion process may put on the channel.
InboundMessages ==
    {MsgNull, MsgNoType, Msg("ping", Undef),
     Msg("connected", JBool(TRUE)), Msg("connected", JBool(FALSE)),
     Msg("devices", JStr(<<"x">>))}
    \cup {Msg("devices", JList(d)) : d \in DeviceLists}

\* What another extension context (or a content script) may send.
ShareMessage == Msg("share", JObj(<<"a", "u", "share">>))
InternalMessages == {MsgNull, MsgPrim, MsgNoType, Msg("devices", Undef), ShareMessage}

\* { type: 'devices' }, the request of the device list.
DevicesRequest == Msg("devices", Undef)

\* ------------------------------------------------------------------- URLs

\* A URL as the code sees it: undefined, or a string of characters.
Str(s) == [def |-> TRUE, s |-> s]
UrlUndefined == [def |-> FALSE, s |-> <<>>]
UrlEmpty == Str(<<>>)
UrlAboutBlank == Str(<<"a", "b", "o", "u", "t", ":", "b", "l", "a", "n", "k">>)
UrlExample == Str(<<"h", "t", "t", "p", "s", ":", "/", "/", "e", "x", "a", "m", "p", "l", "e", ".", "c", "o", "m">>)
UrlChrome == Str(<<"c", "h", "r", "o", "m", "e", ":", "/", "/", "x">>)
UrlChromeExt == Str(<<"c", "h", "r", "o", "m", "e", "-", "e", "x", "t", "e", "n", "s", "i", "o", "n", ":", "/", "/", "x">>)
UrlEdge == Str(<<"e", "d", "g", "e", ":", "/", "/", "x">>)
UrlFile == Str(<<"f", "i", "l", "e", ":", "/", "/", "/", "x">>)
UrlMozExt == Str(<<"m", "o", "z", "-", "e", "x", "t", "e", "n", "s", "i", "o", "n", ":", "/", "/", "x">>)
UrlHttpAbout == Str(<<"h", "t", "t", "p", ":", "/", "/", "a", "b", "o", "u", "t", ":">>)
UrlUpperAbout == Str(<<"A", "b", "o", "u", "t", ":", "b", "l", "a", "n", "k">>)
UrlAboutNoColon == Str(<<"a", "b", "o", "u", "t">>)
UrlChromeDash == Str(<<"c", "h", "r", "o", "m", "e", "-", "x", ":">>)
UrlFileNoColon == Str(<<"f", "i", "l", "e">>)
UrlSchemeOnly == Str(<<"e", "d", "g", "e", ":">>)
UrlFtp == Str(<<"f", "t", "p", ":", "/", "/", "x">>)
UrlData == Str(<<"d", "a", "t", "a", ":", "x">>)
UrlMoz == Str(<<"m", "o", "z", "-", "x", ":">>)
UrlLeadingSpace == Str(<<" ", "a", "b", "o", "u", "t", ":">>)

\* The URLs the classification is tried on.
Urls ==
    {UrlUndefined, UrlEmpty, UrlAboutBlank, UrlExample, UrlChrome, UrlChromeExt,
     UrlEdge, UrlFile, UrlMozExt, UrlHttpAbout, UrlUpperAbout, UrlAboutNoColon,
     UrlChromeDash, UrlFileNoColon, UrlSchemeOnly, UrlFtp, UrlData, UrlMoz,
     UrlLeadingSpace}

\* The URLs a tab takes in the behaviours of the background script.
TabUrls == {UrlUndefined, UrlAboutBlank, UrlExample}

SPECIAL_PROTOCOLS ==
    << <<"a", "b", "o", "u", "t", ":">>,
       <<"c", "h", "r", "o", "m", "e", ":">>,
       <<"c", "h", "r", "o", "m", "e", "-", "e", "x", "t", "e", "n", "s", "i", "o", "n", ":">>,
       <<"e", "d", "g", "e", ":">>,
       <<"f", "i", "l", "e", ":">>,
       <<"m", "o", "z", "-", "e", "x", "t", "e", "n", "s", "i", "o", "n", ":">> >>

\* The popup script's own copy of the list.
POPUP_SPECIAL_PROTOCOLS ==
    << <<"a", "b", "o", "u", "t", ":">>,
       <<"c", "h", "r", "o", "m", "e", ":">>,
       <<"c", "h", "r", "o", "m", "e", "-", "e", "x", "t", "e", "n", "s", "i", "o", "n", ":">>,
       <<"e", "d", "g", "e", ":">>,
       <<"f", "i", "l", "e", ":">>,
       <<"m", "o", "z", "-", "e", "x", "t", "e", "n", "s", "i", "o", "n", ":">> >>

\* String.prototype.startsWith.
StartsWith(s, p) == Len(s) >= Len(p) /\ SubSeq(s, 1, Len(p)) = p

\* JavaScript truthiness of a URL: neither undefined nor the empty string.
Truthy(url) == url.def /\ url.s # <<>>

\* isSpecialUrl as updateContextMenu computes it.
MenuIsSpecialUrl(url) ==
    \E i \in DOMAIN SPECIAL_PROTOCOLS :
        Truthy(url) /\ StartsWith(url.s, SPECIAL_PROTOCOLS[i])

\* isSpecialUrl as updateIconState computes it.
IconIsSpecialUrl(url) ==
    \E i \in DOMAIN SPECIAL_PROTOCOLS :
        Truthy(url) /\ StartsWith(url.s, SPECIAL_PROTOCOLS[i])

\* isSpecialUrl(url) of the popup script.
PopupIsSpecialUrl(url) ==
    IF ~Truthy(url)
    THEN TRUE
    ELSE \E i \in DOMAIN POPUP_SPECIAL_PROTOCOLS :
             StartsWith(url.s, POPUP_SPECIAL_PROTOCOLS[i])

\* ------------------------------------------------------------------ state

VARIABLES
    nmhPort,                    \* the channel handle: 0 is null, else a port id
    ports,                      \* the ports connectNative has returned, by id
    storage,                    \* browser.storage.local: the persisted record
    writes,                     \* storage.local.set calls not yet completed, in order
    resumable,                  \* handleNMHMessage continuations whose set has completed
    timers,                     \* the timers that are pending
    updateContextMenuTimeout,   \* the debounce timer handle: 0 is null
    tabs,                       \* the URL of each tab
    activeTab,                  \* the active tab of the current window
    icon,                       \* the toolbar icon of each tab
    pendingInit,                \* initializeState calls suspended on tabs.query
    pendingAct,                 \* onActivated handlers suspended on tabs.get
    rebuilds,                   \* the timer callbacks that are executing
    menu,                       \* the context-menu entries, by id
    ev,                         \* history: the event handled last
    out,                        \* history: what the last step posted on a port
    discAt,                     \* history: ports opened when the last disconnect was
                                \*   handled, -1 before the first one
    lastDev,                    \* history: the port of the last 'devices' message
                                \*   handled since the last disconnect, else 0
    nDev,                       \* history: 'devices' messages handled
    nDone,                      \* history: of these, the ones whose set has completed
    nTrigDev,                   \* history: refresh triggers made for them
    burst,                      \* history: triggers since the last timer expiry
    seenSince,                  \* history: the active tab's URLs since the last trigger
    failure,                    \* history: "recent" when a menu operation has failed
                                \*   since the last trigger, "earlier" when one
                                \*   has failed before it, else "none"
    inFlight,                   \* the ports whose disconnect event the browser has
                                \*   queued and not yet delivered
    popupOpen,                  \* whether the popup page is open
    renders,                    \* the renderPopupUI calls that are suspended
    popupContent,               \* the children of the popup's content element
    cUrl,                       \* classification: the URL under test
    cMenu, cIcon, cPopup        \* classification: each place's answer for cUrl

sessionVars == <<nmhPort, ports, storage, writes, resumable, discAt, lastDev, nDev, nDone, nTrigDev, inFlight>>
timerVars == <<timers, updateContextMenuTimeout, burst, seenSince, failure>>
tabVars == <<tabs, activeTab>>
uiVars == <<icon, pendingInit, pendingAct, rebuilds, menu>>
urlVars == <<cUrl, cMenu, cIcon, cPopup>>
popupVars == <<popupOpen, renders, popupContent>>
vars == <<sessionVars, timerVars, tabVars, uiVars, ev, out, urlVars, popupVars>>

Tabs == {1, 2}

\* The record after a disconnect, and the records a previous session can have left.
Cleared == [devices |-> JList(<<>>), connected |-> JBool(FALSE)]
Unset == [devices |-> Undef, connected |-> Undef]
InitialRecords == {Unset, Cleared, [devices |-> JList(<<"a">>), connected |-> JBool(TRUE)]}

\* The result of a sendMessageToNMH call; NoSend when there was no call.
NoSend == [called |-> FALSE, tx |-> "none", ret |-> FALSE, raised |-> FALSE, posted |-> <<>>]

\* The history record of an event.
Ev(kind, msg, port, fromTab, s) ==
    [kind |-> kind, msg |-> msg, port |-> port, fromTab |-> fromTab,
     called |-> s.called, tx |-> s.tx, ret |-> s.ret, raised |-> s.raised,
     url |-> UrlUndefined, n |-> 0]

\* The history record of a step of the UI synchronizer; url is what it read.
EvUi(kind, url) == [Ev(kind, NoMsg, 0, FALSE, NoSend) EXCEPT !.url = url]

\* The history record of a timer expiry; n is the triggers the timer stood for.
EvTimer(n) == [Ev("timer", NoMsg, 0, FALSE, NoSend) EXCEPT !.n = n]

\* tabs[0]?.url of the active-tab query, a being the active tab (0: none).
CurrentTabUrl(ts, a) == IF a = 0 THEN UrlUndefined ELSE ts[a]

\* The state after construction: rec is the record in the store, u the URL
\* the classification is tried on.
Start(rec, u) ==
    /\ nmhPort = 0
    /\ ports = <<>>
    /\ storage = rec
    /\ writes = <<>>
    /\ resumable = 0
    /\ timers = {}
    /\ updateContextMenuTimeout = 0
    /\ tabs = [t \in Tabs |-> IF t = 1 THEN UrlExample ELSE UrlAboutBlank]
    /\ activeTab = 1
    /\ icon = [t \in Tabs |-> "enabled"]
    /\ pendingInit = 0
    /\ pendingAct = <<>>
    /\ rebuilds = <<>>
    /\ menu = <<>>
    /\ ev = Ev("none", NoMsg, 0, FALSE, NoSend)
    /\ out = <<>>
    /\ discAt = -1
    /\ lastDev = 0
    /\ nDev = 0
    /\ nDone = 0
    /\ nTrigDev = 0
    /\ burst = 0
    /\ seenSince = {UrlExample}
    /\ failure = "none"
    /\ inFlight = {}
    /\ popupOpen = FALSE
    /\ renders = <<>>
    /\ popupContent = <<>>
    /\ cUrl = u
    /\ cMenu = "none"
    /\ cIcon = "none"
    /\ cPopup = "none"

\* The background script starts with what an earlier session left in the store.
Init == \E rec \in InitialRecords : Start(rec, UrlUndefined)

\* The first start after the installation: nothing is in the store.
InitFresh == Start(Unset, UrlUndefined)

\* ---------------------------------------------------------- session manager

\* browser.storage.local.set: the keys given are overwritten, a key whose value
\* is undefined is left as it was.
StorageSet(rec, items) ==
    [devices |-> IF items.devices = Undef THEN rec.devices ELSE items.devices,
     connected |-> IF items.connected = Undef THEN rec.connected ELSE items.connected]

\* What the 'devices' case passes to storage.local.set.
DevicesItems(message) == [devices |-> message.data, connected |-> JBool(TRUE)]

\* Mutant of DisconnectItems: the device list is not reset.
DisconnectItemsConnectedOnly == [devices |-> Undef, connected |-> JBool(FALSE)]

\* What onNMHDisconnect passes to storage.local.set.
DisconnectItems == [devices |-> JList(<<>>), connected |-> JBool(FALSE)]

\* Mutant of OnNMHDisconnect: the handle is cleared, the record is not written.
OnNMHDisconnectHandleOnly ==
    /\ nmhPort' = 0
    /\ UNCHANGED writes
    /\ discAt' = Len(ports)
    /\ lastDev' = 0

\* onNMHDisconnect(): the handle is cleared and the cleared record is written
\* (the promise of the set is dropped).
OnNMHDisconnect ==
    /\ nmhPort' = 0
    /\ writes' = Append(writes, [items |-> DisconnectItems, cont |-> FALSE])
    /\ discAt' = Len(ports)
    /\ lastDev' = 0

\* Mutant of DisconnectExisting: the existing port is left open.
DisconnectExistingNoop(ps, h) == ps

\* port.disconnect() on the port the handle names, if any.
DisconnectExisting(ps, h) ==
    IF h # 0 THEN [ps EXCEPT ![h].open = FALSE] ELSE ps

\* event.addListener(callback).
AddListener(n) == n + 1

\* Mutant of ConnectToNMH: a connectNative that throws is not caught, so the
\* handle keeps naming the port that was closed and nothing is written.
ConnectToNMHNoCatch(ok) ==
    IF ok
    THEN /\ Len(ports) < MaxPorts
         /\ ports' = Append(DisconnectExisting(ports, nmhPort),
                            [open |-> TRUE,
                             onMessage |-> AddListener(0),
                             onDisconnect |-> AddListener(0)])
         /\ nmhPort' = Len(ports) + 1
         /\ UNCHANGED <<writes, discAt, lastDev>>
    ELSE /\ Len(writes) < MaxWrites
         /\ ports' = DisconnectExisting(ports, nmhPort)
         /\ UNCHANGED <<nmhPort, writes, discAt, lastDev>>

\* connectToNMH(): ok says whether connectNative returns a port or throws.
ConnectToNMH(ok) ==
    IF ok
    THEN /\ Len(ports) < MaxPorts
         /\ ports' = Append(DisconnectExisting(ports, nmhPort),
                            [open |-> TRUE,
                             onMessage |-> AddListener(0),
                             onDisconnect |-> AddListener(0)])
         /\ nmhPort' = Len(ports) + 1
         /\ UNCHANGED <<writes, discAt, lastDev>>
    ELSE /\ Len(writes) < MaxWrites
         /\ ports' = DisconnectExisting(ports, nmhPort)
         /\ OnNMHDisconnect

\* Mutant of SendMessageToNMH: a postMessage that throws is not caught.
SendMessageToNMHNoCatch(h, message, ok) ==
    IF h = 0
    THEN [called |-> TRUE, tx |-> "none", ret |-> FALSE, raised |-> FALSE, posted |-> <<>>]
    ELSE IF ok
         THEN [called |-> TRUE, tx |-> "ok", ret |-> TRUE, raised |-> FALSE,
               posted |-> <<[port |-> h, msg |-> message]>>]
         ELSE [called |-> TRUE, tx |-> "fail", ret |-> FALSE, raised |-> TRUE,
               posted |-> <<>>]

\* sendMessageToNMH(message) with the handle h: ok says whether postMessage
\* returns or throws.
SendMessageToNMH(h, message, ok) ==
    IF h = 0
    THEN [called |-> TRUE, tx |-> "none", ret |-> FALSE, raised |-> FALSE, posted |-> <<>>]
    ELSE IF ok
         THEN [called |-> TRUE, tx |-> "ok", ret |-> TRUE, raised |-> FALSE,
               posted |-> <<[port |-> h, msg |-> message]>>]
         ELSE [called |-> TRUE, tx |-> "fail", ret |-> FALSE, raised |-> FALSE,
               posted |-> <<>>]

\* Mutant of ClearTimeout: the pending timer is not cancelled.
ClearTimeoutNoop(ts, h) == ts

\* clearTimeout(h) on the pending timers ts.
ClearTimeout(ts, h) == ts \ {h}

\* The id setTimeout returns: one no pending timer has.
NewTimer(ts) == CHOOSE i \in 1..(Cardinality(ts) + 1) : i \notin ts

\* updateContextMenu(): the pending timer is cancelled and a new one started.
UpdateContextMenu ==
    LET rest == ClearTimeout(timers, updateContextMenuTimeout)
    IN /\ timers' = rest \cup {NewTimer(rest)}
       /\ updateContextMenuTimeout' = NewTimer(rest)
       /\ burst' = IF burst < MaxBurst THEN burst + 1 ELSE burst
       /\ seenSince' = {CurrentTabUrl(tabs', activeTab')}
       /\ failure' = IF failure = "recent" THEN "earlier" ELSE failure

\* initializeState(), up to its await: the channel is (re)opened and the
\* active tab queried.
InitializeState(ok) ==
    /\ pendingInit < MaxSuspended
    /\ ConnectToNMH(ok)
    /\ pendingInit' = pendingInit + 1
    /\ ev' = Ev(IF ok THEN "startup" ELSE "startupFailed", NoMsg, nmhPort', FALSE, NoSend)
    /\ out' = <<>>
    /\ UNCHANGED <<storage, resumable, nDev, nDone, nTrigDev, inFlight>>
    /\ UNCHANGED <<timerVars, tabVars, icon, pendingAct, rebuilds, menu, urlVars, popupVars>>

\* Mutant of PortDisconnect: the listener opens a new channel at once.
PortDisconnectReconnect(p) ==
    /\ ports[p].open
    /\ ports[p].onDisconnect > 0
    /\ Len(ports) < MaxPorts
    /\ ports' = Append([ports EXCEPT ![p].open = FALSE],
                       [open |-> TRUE,
                        onMessage |-> AddListener(0),
                        onDisconnect |-> AddListener(0)])
    /\ nmhPort' = Len(ports) + 1
    /\ writes' = Append(writes, [items |-> DisconnectItems, cont |-> FALSE])
    /\ discAt' = Len(ports)
    /\ lastDev' = 0
    /\ ev' = Ev("disconnect", NoMsg, p, FALSE, NoSend)
    /\ out' = <<>>
    /\ UNCHANGED <<storage, resumable, nDev, nDone, nTrigDev, inFlight>>
    /\ UNCHANGED <<timerVars, tabVars, uiVars, urlVars, popupVars>>

\* The port's disconnect event: the port is closed and its listener runs.
PortDisconnect(p) ==
    /\ ports[p].open
    /\ ports[p].onDisconnect > 0
    /\ Len(writes) < MaxWrites
    /\ ports' = [ports EXCEPT ![p].open = FALSE]
    /\ OnNMHDisconnect
    /\ ev' = Ev("disconnect", NoMsg, p, FALSE, NoSend)
    /\ out' = <<>>
    /\ UNCHANGED <<storage, resumable, nDev, nDone, nTrigDev, inFlight>>
    /\ UNCHANGED <<timerVars, tabVars, uiVars, urlVars, popupVars>>

\* The companion process exits, or closes its end of the port p: the browser
\* queues the port's disconnect event.
HostExit(p) ==
    /\ ports[p].open
    /\ p \notin inFlight
    /\ inFlight' = inFlight \cup {p}
    /\ ev' = Ev("exit", NoMsg, p, FALSE, NoSend)
    /\ out' = <<>>
    /\ UNCHANGED <<nmhPort, ports, storage, writes, resumable, discAt, lastDev, nDev, nDone, nTrigDev>>
    /\ UNCHANGED <<timerVars, tabVars, uiVars, urlVars, popupVars>>

\* Mutant of DisconnectDelivered: the listener runs for a port that
\* disconnect() has closed, too.
DisconnectDeliveredAny(p) ==
    /\ p \in inFlight
    /\ inFlight' = inFlight \ {p}
    /\ Len(writes) < MaxWrites
    /\ ports' = [ports EXCEPT ![p].open = FALSE]
    /\ OnNMHDisconnect
    /\ ev' = Ev("disconnect", NoMsg, p, FALSE, NoSend)
    /\ out' = <<>>
    /\ UNCHANGED <<storage, resumable, nDev, nDone, nTrigDev>>
    /\ UNCHANGED <<timerVars, tabVars, uiVars, urlVars, popupVars>>

\* The queued disconnect event of port p arrives: its listener runs, unless
\* connectToNMH has closed the port with disconnect() in between, and then
\* the browser drops the event.
DisconnectDelivered(p) ==
    /\ p \in inFlight
    /\ inFlight' = inFlight \ {p}
    /\ IF ports[p].open /\ ports[p].onDisconnect > 0
       THEN /\ Len(writes) < MaxWrites
            /\ ports' = [ports EXCEPT ![p].open = FALSE]
            /\ OnNMHDisconnect
            /\ ev' = Ev("disconnect", NoMsg, p, FALSE, NoSend)
       ELSE /\ ev' = Ev("dropped", NoMsg, p, FALSE, NoSend)
            /\ UNCHANGED <<nmhPort, ports, writes, discAt, lastDev>>
    /\ out' = <<>>
    /\ UNCHANGED <<storage, resumable, nDev, nDone, nTrigDev>>
    /\ UNCHANGED <<timerVars, tabVars, uiVars, urlVars, popupVars>>

\* Mutant of HandleDevices: the set is not awaited, the refresh is triggered
\* at once.
HandleDevicesNoAwait(p, message) ==
    /\ Len(writes) < MaxWrites
    /\ nDev < MaxDevMsgs
    /\ writes' = Append(writes, [items |-> DevicesItems(message), cont |-> FALSE])
    /\ nDev' = nDev + 1
    /\ lastDev' = p
    /\ UpdateContextMenu
    /\ nTrigDev' = nTrigDev + 1
    /\ UNCHANGED <<resumable, discAt, nDone>>

\* The 'devices' case of handleNMHMessage, delivered on port p, up to its await.
HandleDevices(p, message) ==
    /\ Len(writes) < MaxWrites
    /\ nDev < MaxDevMsgs
    /\ writes' = Append(writes, [items |-> DevicesItems(message), cont |-> TRUE])
    /\ nDev' = nDev + 1
    /\ lastDev' = p
    /\ UNCHANGED <<resumable, discAt, nDone, nTrigDev, timerVars>>

\* Mutant of IsConnectedTrue: the data of the message is not looked at.
IsConnectedAny(message) == TRUE

\* The test of the 'connected' case: message.data === true.
IsConnectedTrue(message) == message.data = JBool(TRUE)

\* handleNMHMessage(message), delivered on port p.
HandleNMHMessage(p, message, ok) ==
    /\ ports[p].open
    /\ ports[p].onMessage > 0
    /\ UNCHANGED <<nmhPort, ports, storage, inFlight, tabVars, uiVars, urlVars, popupVars>>
    /\ IF message.shape = "null" \/ ~message.tstr
       THEN /\ ev' = Ev("nmh", message, p, FALSE, NoSend)
            /\ out' = <<>>
            /\ UNCHANGED <<writes, resumable, discAt, lastDev, nDev, nDone, nTrigDev, timerVars>>
       ELSE IF message.type = "connected"
       THEN LET s == IF IsConnectedTrue(message)
                     THEN SendMessageToNMH(nmhPort, DevicesRequest, ok)
                     ELSE NoSend
            IN /\ ev' = Ev("nmh", message, p, FALSE, s)
               /\ out' = s.posted
               /\ UNCHANGED <<writes, resumable, discAt, lastDev, nDev, nDone, nTrigDev, timerVars>>
       ELSE IF message.type = "devices"
       THEN /\ HandleDevices(p, message)
            /\ ev' = Ev("nmh", message, p, FALSE, NoSend)
            /\ out' = <<>>
       ELSE /\ ev' = Ev("nmh", message, p, FALSE, NoSend)
            /\ out' = <<>>
            /\ UNCHANGED <<writes, resumable, discAt, lastDev, nDev, nDone, nTrigDev, timerVars>>

\* A storage.local.set call completes: the record is overwritten and the
\* promise of the call resolves.
StorageSetComplete ==
    /\ writes # <<>>
    /\ storage' = StorageSet(storage, Head(writes).items)
    /\ writes' = Tail(writes)
    /\ resumable' = IF Head(writes).cont THEN resumable + 1 ELSE resumable
    /\ nDone' = IF Head(writes).cont THEN nDone + 1 ELSE nDone
    /\ ev' = Ev("set",
                IF Head(writes).cont
                THEN Msg("devices", Head(writes).items.devices)
                ELSE NoMsg,
                0, FALSE, NoSend)
    /\ out' = <<>>
    /\ UNCHANGED <<nmhPort, ports, discAt, lastDev, nDev, nTrigDev, inFlight>>
    /\ UNCHANGED <<timerVars, tabVars, uiVars, urlVars, popupVars>>

\* The 'devices' case of handleNMHMessage, after its await.
ResumeDevices ==
    /\ resumable > 0
    /\ resumable' = resumable - 1
    /\ UNCHANGED tabVars
    /\ UpdateContextMenu
    /\ nTrigDev' = nTrigDev + 1
    /\ ev' = Ev("resume", NoMsg, 0, FALSE, NoSend)
    /\ out' = <<>>
    /\ UNCHANGED <<nmhPort, ports, storage, writes, discAt, lastDev, nDev, nDone, inFlight>>
    /\ UNCHANGED <<uiVars, urlVars, popupVars>>

\* -------------------------------------------------------------- message router

\* Mutant of ShareAllowed: the sender is not looked at.
ShareAllowedAlways(fromTab) == TRUE

\* The test of the 'share' case: the sender is no tab.
ShareAllowed(fromTab) == ~fromTab

\* handleRuntimeMessage(message, sender): fromTab is sender.tab.
HandleRuntimeMessage(message, fromTab, ok) ==
    /\ LET s == IF message.shape # "object" THEN NoSend
                ELSE IF message.tstr /\ message.type = "share"
                THEN IF ShareAllowed(fromTab)
                     THEN SendMessageToNMH(nmhPort, message, ok)
                     ELSE NoSend
                ELSE NoSend
       IN /\ ev' = Ev("runtime", message, 0, fromTab, s)
          /\ out' = s.posted
    /\ UNCHANGED <<sessionVars, timerVars, tabVars, uiVars, urlVars, popupVars>>

\* -------------------------------------------------------------- UI synchronizer

\* Mutant of UpdateIconState: the icon is enabled whatever the URL.
UpdateIconStateEnableOnly(tabId, url) ==
    icon' = [icon EXCEPT ![tabId] = "enabled"]

\* updateIconState(tabId, url).
UpdateIconState(tabId, url) ==
    icon' = [icon EXCEPT ![tabId] = IF IconIsSpecialUrl(url) THEN "disabled" ELSE "enabled"]

\* initializeState(), after its await: tabs[0] is the active tab, if there is one.
InitializeStateResume ==
    /\ pendingInit > 0
    /\ pendingInit' = pendingInit - 1
    /\ IF activeTab # 0
       THEN UpdateIconState(activeTab, tabs[activeTab])
       ELSE UNCHANGED icon
    /\ ev' = Ev("ui", NoMsg, 0, FALSE, NoSend)
    /\ out' = <<>>
    /\ UNCHANGED <<sessionVars, timerVars, tabVars, pendingAct, rebuilds, menu, urlVars, popupVars>>

\* tabs.onActivated, up to its await: tab t has become the active tab.
TabActivated(t) ==
    /\ t # activeTab
    /\ Len(pendingAct) < MaxSuspended
    /\ activeTab' = t
    /\ pendingAct' = Append(pendingAct, t)
    /\ seenSince' = seenSince \cup {tabs[t]}
    /\ ev' = EvUi("ui", UrlUndefined)
    /\ out' = <<>>
    /\ UNCHANGED <<sessionVars, timers, updateContextMenuTimeout, burst, failure>>
    /\ UNCHANGED <<tabs, icon, pendingInit, rebuilds, menu, urlVars, popupVars>>

\* tabs.onActivated, after its await: tabs.get has returned the tab.
TabActivatedResume ==
    /\ pendingAct # <<>>
    /\ pendingAct' = Tail(pendingAct)
    /\ UNCHANGED tabVars
    /\ UpdateIconState(Head(pendingAct), tabs[Head(pendingAct)])
    /\ UpdateContextMenu
    /\ ev' = EvUi("ui", UrlUndefined)
    /\ out' = <<>>
    /\ UNCHANGED <<sessionVars, pendingInit, rebuilds, menu, urlVars, popupVars>>

\* tabs.onUpdated: tab t has gone to the URL u, which is changeInfo.url.
TabUpdated(t, u) ==
    /\ u # tabs[t]
    /\ tabs' = [tabs EXCEPT ![t] = u]
    /\ UNCHANGED activeTab
    /\ IF Truthy(u)
       THEN /\ UpdateIconState(t, u)
            /\ UpdateContextMenu
       ELSE /\ seenSince' = seenSince \cup {CurrentTabUrl(tabs', activeTab')}
            /\ UNCHANGED <<icon, timers, updateContextMenuTimeout, burst, failure>>
    /\ ev' = EvUi("ui", UrlUndefined)
    /\ out' = <<>>
    /\ UNCHANGED <<sessionVars, pendingInit, pendingAct, rebuilds, menu, urlVars, popupVars>>

\* Mutant of MenuRemoveAll: the entries are left in the menu.
MenuRemoveAllNoop(m) == m

\* contextMenus.removeAll().
MenuRemoveAll(m) == <<>>

\* contextMenus.create(properties): an id already in the menu is an error,
\* which leaves the menu as it was.
MenuCreate(m, properties) ==
    IF \E k \in DOMAIN m : m[k].id = properties.id
    THEN m
    ELSE Append(m, properties)

CONTEXT_TYPES == <<"audio", "frame", "image", "link", "page", "video">>

\* Mutant of CreateMenuItem: no id is given, the browser generates one.
CreateMenuItemAutoId(m) ==
    MenuCreate(m, [id |-> IF Len(m) = 0 THEN "auto1" ELSE "auto2",
                   title |-> "Send with GSConnect",
                   contexts |-> CONTEXT_TYPES])

\* The contextMenus.create call of the timer callback.
CreateMenuItem(m) ==
    MenuCreate(m, [id |-> "openPopup", title |-> "Send with GSConnect",
                   contexts |-> CONTEXT_TYPES])

\* The rebuilds without the i-th.
Without(rs, i) == SubSeq(rs, 1, i - 1) \o SubSeq(rs, i + 1, Len(rs))

\* The timer id expires: its callback starts and calls removeAll, which
\* takes effect in the order of the calls; ok says whether it succeeds.
TimerFire(id, ok) ==
    /\ id \in timers
    /\ Len(rebuilds) < MaxRebuilds
    /\ timers' = timers \ {id}
    /\ burst' = 0
    /\ rebuilds' = Append(rebuilds, [pc |-> "removeAll", ok |-> ok])
    /\ menu' = IF ok THEN MenuRemoveAll(menu) ELSE menu
    /\ ev' = EvTimer(burst)
    /\ out' = <<>>
    /\ UNCHANGED <<sessionVars, updateContextMenuTimeout, seenSince, failure>>
    /\ UNCHANGED <<tabVars, icon, pendingInit, pendingAct, urlVars, popupVars>>

\* Mutant of RebuildFailed: the callback has no catch, the error leaves it.
RebuildFailedNoCatch == [EvUi("failed", UrlUndefined) EXCEPT !.raised = TRUE]

\* The catch of the timer callback: the error is logged and the callback ends.
RebuildFailed == EvUi("failed", UrlUndefined)

\* The callback resumes after removeAll: it queries the active tab, or its
\* catch ends it.
RemoveAllDone(i) ==
    /\ rebuilds[i].pc = "removeAll"
    /\ rebuilds' = IF rebuilds[i].ok
                   THEN [rebuilds EXCEPT ![i].pc = "query"]
                   ELSE Without(rebuilds, i)
    /\ ev' = IF rebuilds[i].ok THEN EvUi("ui", UrlUndefined) ELSE RebuildFailed
    /\ failure' = IF rebuilds[i].ok THEN failure ELSE "recent"
    /\ out' = <<>>
    /\ UNCHANGED <<sessionVars, timers, updateContextMenuTimeout, burst, seenSince>>
    /\ UNCHANGED <<tabVars, icon, pendingInit, pendingAct, menu, urlVars, popupVars>>

\* The callback resumes after tabs.query: unless the URL is special it
\* creates the entry; okq and okc say whether query and create succeed.
QueryDone(i, okq, okc) ==
    LET url == CurrentTabUrl(tabs, activeTab)
        failed == ~okq \/ (~MenuIsSpecialUrl(url) /\ ~okc)
    IN /\ rebuilds[i].pc = "query"
       /\ rebuilds' = Without(rebuilds, i)
       /\ menu' = IF okq /\ okc /\ ~MenuIsSpecialUrl(url)
                  THEN CreateMenuItem(menu)
                  ELSE menu
       /\ ev' = IF failed THEN RebuildFailed ELSE EvUi("query", url)
       /\ failure' = IF failed THEN "recent" ELSE failure
       /\ out' = <<>>
       /\ UNCHANGED <<sessionVars, timers, updateContextMenuTimeout, burst, seenSince>>
       /\ UNCHANGED <<tabVars, icon, pendingInit, pendingAct, urlVars, popupVars>>

\* ------------------------------------------------------------------- popup

\* A child of the popup's content element: a status message or a device list.
Status(text) == [kind |-> "message", text |-> text, devices |-> <<>>]
DeviceListView(devices) == [kind |-> "list", text |-> "", devices |-> devices]

Unavailable == Status("Sharing is not available on this page.")

\* showStatusMessage(message).
ShowStatusMessage(content, message) == Append(content, Status(message))

\* renderDeviceList(devices).
RenderDeviceList(content, devices) == Append(content, DeviceListView(devices))

\* What renderPopupUI appends for the record rec it got from the store.
RenderRecord(content, rec) ==
    IF rec.connected = JBool(FALSE)
    THEN ShowStatusMessage(content, "GSConnect is not connected.")
    ELSE IF rec.devices.t # "array" \/ Len(rec.devices.l) = 0
    THEN ShowStatusMessage(content, "No devices found.")
    ELSE RenderDeviceList(content, rec.devices.l)

\* renderPopupUI(), up to its first await: the content is emptied and the
\* active tab queried.
RenderPopupUI ==
    /\ Len(renders) < MaxSuspended
    /\ popupContent' = <<>>
    /\ renders' = Append(renders, "tab")

\* DOMContentLoaded: the popup page has been opened.
PopupLoaded ==
    /\ ~popupOpen
    /\ popupOpen' = TRUE
    /\ RenderPopupUI
    /\ ev' = Ev("popup", NoMsg, 0, FALSE, NoSend)
    /\ out' = <<>>
    /\ UNCHANGED <<sessionVars, timerVars, tabVars, uiVars, urlVars>>

\* runtime.onMessage in the popup: a message of another context arrives.
PopupOnMessage ==
    /\ popupOpen
    /\ RenderPopupUI
    /\ UNCHANGED popupOpen
    /\ ev' = Ev("popupMessage", NoMsg, 0, FALSE, NoSend)
    /\ out' = <<>>
    /\ UNCHANGED <<sessionVars, timerVars, tabVars, uiVars, urlVars>>

\* renderPopupUI resumes after getCurrentTab(): ok says whether tabs.query
\* succeeded (getCurrentTab returns null when it did not).
PopupTabDone(i, ok) ==
    /\ renders[i] = "tab"
    /\ IF ~ok \/ activeTab = 0 \/ PopupIsSpecialUrl(CurrentTabUrl(tabs, activeTab))
       THEN /\ popupContent' = ShowStatusMessage(popupContent, Unavailable.text)
            /\ renders' = Without(renders, i)
       ELSE /\ renders' = [renders EXCEPT ![i] = "get"]
            /\ UNCHANGED popupContent
    /\ ev' = Ev("popup", NoMsg, 0, FALSE, NoSend)
    /\ out' = <<>>
    /\ UNCHANGED <<popupOpen, sessionVars, timerVars, tabVars, uiVars, urlVars>>

\* renderPopupUI resumes after storage.local.get and renders the record.
PopupGetDone(i) ==
    /\ renders[i] = "get"
    /\ popupContent' = RenderRecord(popupContent, storage)
    /\ renders' = Without(renders, i)
    /\ ev' = Ev("popup", NoMsg, 0, FALSE, NoSend)
    /\ out' = <<>>
    /\ UNCHANGED <<popupOpen, sessionVars, timerVars, tabVars, uiVars, urlVars>>

\* The popup page is closed, its suspended calls with it.
PopupClosed ==
    /\ popupOpen
    /\ popupOpen' = FALSE
    /\ renders' = <<>>
    /\ popupContent' = <<>>
    /\ ev' = Ev("popup", NoMsg, 0, FALSE, NoSend)
    /\ out' = <<>>
    /\ UNCHANGED <<sessionVars, timerVars, tabVars, uiVars, urlVars>>

\* ------------------------------------------------------------- specifications

\* Whether postMessage returns (TRUE) or throws (FALSE), for the messages
\* whose handling can reach a postMessage; for the others the outcome is moot.
PostOutcomes(canSend) == IF canSend THEN BOOLEAN ELSE {TRUE}

\* The events of the session manager, the store and the message router.
NextSession ==
    \/ \E ok \in BOOLEAN : InitializeState(ok)
    \/ InitializeStateResume
    \/ \E p \in DOMAIN ports : PortDisconnect(p)
    \/ \E p \in DOMAIN ports, m \in InboundMessages :
           \E ok \in PostOutcomes(m.type = "connected") : HandleNMHMessage(p, m, ok)
    \/ StorageSetComplete
    \/ ResumeDevices
    \/ \E m \in InternalMessages, fromTab \in BOOLEAN :
           \E ok \in PostOutcomes(m.type = "share") : HandleRuntimeMessage(m, fromTab, ok)

SpecSession == Init /\ [][NextSession]_vars

\* The replacement of a channel whose disconnect event is on its way.
NextReplace ==
    \/ \E ok \in BOOLEAN : InitializeState(ok)
    \/ InitializeStateResume
    \/ \E p \in DOMAIN ports : HostExit(p)
    \/ \E p \in DOMAIN ports : DisconnectDelivered(p)
    \/ StorageSetComplete
    \/ \E fromTab \in BOOLEAN, ok \in BOOLEAN : HandleRuntimeMessage(ShareMessage, fromTab, ok)

SpecReplace == Init /\ [][NextReplace]_vars

\* The 'devices' notifications of a companion process that honours the protocol.
DeviceNotifications == {Msg("devices", JList(d)) : d \in DeviceLists}

\* The popup and the events that change the record.
NextPopup ==
    \/ \E ok \in BOOLEAN : InitializeState(ok)
    \/ InitializeStateResume
    \/ \E p \in DOMAIN ports : PortDisconnect(p)
    \/ \E p \in DOMAIN ports, m \in DeviceNotifications : HandleNMHMessage(p, m, TRUE)
    \/ StorageSetComplete
    \/ ResumeDevices
    \/ PopupLoaded
    \/ PopupOnMessage
    \/ \E i \in DOMAIN renders, ok \in BOOLEAN : PopupTabDone(i, ok)
    \/ \E i \in DOMAIN renders : PopupGetDone(i)
    \/ PopupClosed

\* The steps the program takes by itself are taken: a set completes, a
\* suspended call resumes. The events of the browser, the companion process
\* and the user need not happen.
FairPopup ==
    /\ WF_vars(StorageSetComplete)
    /\ WF_vars(ResumeDevices)
    /\ WF_vars(InitializeStateResume)
    /\ WF_vars(\E i \in DOMAIN renders, ok \in BOOLEAN : PopupTabDone(i, ok))
    /\ WF_vars(\E i \in DOMAIN renders : PopupGetDone(i))

SpecPopup == InitFresh /\ [][NextPopup]_vars /\ FairPopup

\* The events of the UI synchronizer.
NextUI ==
    \/ \E t \in Tabs : TabActivated(t)
    \/ TabActivatedResume
    \/ \E t \in Tabs, u \in TabUrls : TabUpdated(t, u)
    \/ \E id \in timers, ok \in BOOLEAN : TimerFire(id, ok)
    \/ \E i \in DOMAIN rebuilds : RemoveAllDone(i)
    \/ \E i \in DOMAIN rebuilds, okq \in BOOLEAN, okc \in BOOLEAN : QueryDone(i, okq, okc)

SpecUI == InitFresh /\ [][NextUI]_vars

\* The classification of one URL by each place that computes it.
InitUrl == \E u \in Urls : Start(Unset, u)

Class(special) == IF special THEN "special" ELSE "normal"

ClassifyMenu ==
    /\ cMenu = "none"
    /\ cMenu' = Class(MenuIsSpecialUrl(cUrl))
    /\ UNCHANGED <<sessionVars, timerVars, tabVars, uiVars, ev, out, cUrl, cIcon, cPopup, popupVars>>

ClassifyIcon ==
    /\ cIcon = "none"
    /\ cIcon' = Class(IconIsSpecialUrl(cUrl))
    /\ UNCHANGED <<sessionVars, timerVars, tabVars, uiVars, ev, out, cUrl, cMenu, cPopup, popupVars>>

ClassifyPopup ==
    /\ cPopup = "none"
    /\ cPopup' = Class(PopupIsSpecialUrl(cUrl))
    /\ UNCHANGED <<sessionVars, timerVars, tabVars, uiVars, ev, out, cUrl, cMenu, cIcon, popupVars>>

NextUrl == ClassifyMenu \/ ClassifyIcon \/ ClassifyPopup

SpecUrl == InitUrl /\ [][NextUrl]_vars

\* The whole program.
Next == NextSession \/ NextUI \/ NextReplace \/ NextPopup

Spec == Init /\ [][Next]_vars

\* ---------------------------------------------------------------- properties

OpenPorts == {p \in DOMAIN ports : ports[p].open}

\* C1: after any sequence of connect() calls at most one channel is open, the
\* handle names that open channel, exactly one message listener and one
\* disconnect listener are registered on it, and every channel opened by an
\* earlier connect() is closed.
C1_OneChannel ==
    /\ Cardinality(OpenPorts) <= 1
    /\ nmhPort # 0 => nmhPort \in OpenPorts
    /\ \A p \in OpenPorts :
           /\ nmhPort = p
           /\ ports[p].onMessage = 1
           /\ ports[p].onDisconnect = 1
    /\ \A p \in DOMAIN ports : p < Len(ports) => ~ports[p].open

\* Two connect() calls in succession: the second one closed the first port.
C1_Witness ==
    /\ ev.kind = "startup"
    /\ Len(ports) = 2
    /\ nmhPort = 2
    /\ discAt = -1

IsShare(m) == m.shape = "object" /\ m.tstr /\ m.type = "share"

\* C2 as stated: a 'share' message from a tab is never posted; from a
\* privileged context, with a channel open, it is posted exactly once, unmodified.
C2_Original ==
    (ev.kind = "runtime" /\ IsShare(ev.msg)) =>
        /\ ev.fromTab => out = <<>>
        /\ (~ev.fromTab /\ nmhPort # 0) => out = <<[port |-> nmhPort, msg |-> ev.msg]>>

\* C2 as amended: a 'share' message from a tab is never posted; from a
\* privileged context, with a channel open, it is passed to postMessage exactly
\* once, unmodified: it is posted exactly once if that call returns, and not at
\* all (send returning false) if it throws.
C2_ShareForwarding ==
    (ev.kind = "runtime" /\ IsShare(ev.msg)) =>
        /\ ev.fromTab => (out = <<>> /\ ~ev.called)
        /\ (~ev.fromTab /\ nmhPort # 0) =>
               /\ ev.called
               /\ ev.tx \in {"ok", "fail"}
               /\ ev.tx = "ok" => out = <<[port |-> nmhPort, msg |-> ev.msg]>>
               /\ ev.tx = "fail" => (out = <<>> /\ ~ev.ret)

\* A 'share' message from the popup was posted on the open channel.
C2_Witness ==
    /\ ev.kind = "runtime"
    /\ ev.msg = ShareMessage
    /\ ~ev.fromTab
    /\ nmhPort # 0
    /\ out = <<[port |-> nmhPort, msg |-> ShareMessage]>>

\* The record once every pending set has completed.
RECURSIVE Drain(_, _)
Drain(rec, ws) ==
    IF ws = <<>> THEN rec ELSE Drain(StorageSet(rec, Head(ws).items), Tail(ws))

\* C3: from the handling of a disconnect until a 'devices' message is handled,
\* the record is, once the pending sets have completed, {devices: [],
\* connected: false}; and that 'devices' message is one of a later channel.
C3_DisconnectClears ==
    discAt >= 0 =>
        /\ lastDev = 0 => Drain(storage, writes) = Cleared
        /\ lastDev # 0 => lastDev > discAt

\* A disconnect is handled while the set of a 'devices' message is pending.
C3_Witness ==
    /\ ev.kind = "disconnect"
    /\ storage # Cleared
    /\ \E k \in DOMAIN writes : writes[k].cont

\* C4: whenever connected is false in the record, devices is the empty sequence.
C4_DisconnectedNoDevices ==
    storage.connected = JBool(FALSE) => storage.devices = JList(<<>>)

\* The record is the cleared one after it held a device list, and the set of
\* a later 'devices' message is pending.
C4_Witness ==
    /\ storage = Cleared
    /\ nDone > 0
    /\ writes # <<>>
    /\ writes[1].cont

IsConnectedTrueMsg(m) == m = Msg("connected", JBool(TRUE))

\* C5 as stated: every inbound {type:'connected', data:true} results in exactly
\* one {type:'devices'} request on the channel, and no other inbound message
\* in any.
C5_Original ==
    ev.kind = "nmh" =>
        /\ IsConnectedTrueMsg(ev.msg) => out = <<[port |-> nmhPort, msg |-> DevicesRequest]>>
        /\ ~IsConnectedTrueMsg(ev.msg) => out = <<>>

\* C5 as amended: every inbound {type:'connected', data:true} makes exactly
\* one send of {type:'devices'}, which posts exactly one request unless
\* postMessage throws, and then none; no other inbound message makes a send.
C5_DevicesRequest ==
    ev.kind = "nmh" =>
        /\ IsConnectedTrueMsg(ev.msg) =>
               /\ ev.called
               /\ ev.tx \in {"ok", "fail"}
               /\ ev.tx = "ok" => out = <<[port |-> nmhPort, msg |-> DevicesRequest]>>
               /\ ev.tx = "fail" => (out = <<>> /\ ~ev.ret)
        /\ ~IsConnectedTrueMsg(ev.msg) => (out = <<>> /\ ~ev.called)

\* {type:'connected', data:true} was answered by the request.
C5_Witness ==
    /\ ev.kind = "nmh"
    /\ IsConnectedTrueMsg(ev.msg)
    /\ out = <<[port |-> ev.port, msg |-> DevicesRequest]>>

\* C6: the set of every 'devices' message completes with the record
\* {devices: D, connected: true}, and every such message gets exactly one
\* refresh trigger, made after its set has completed.
C6_DevicesStored ==
    /\ nTrigDev <= nDone
    /\ nDone <= nDev
    /\ nDev - nDone = Cardinality({k \in DOMAIN writes : writes[k].cont})
    /\ nDone - nTrigDev = resumable
    /\ (ev.kind = "set" /\ ev.msg # NoMsg) =>
           storage = [devices |-> ev.msg.data, connected |-> JBool(TRUE)]

\* The trigger of a 'devices' message with two devices, the record written.
C6_Witness ==
    /\ ev.kind = "resume"
    /\ nTrigDev = 1
    /\ nDev = 1
    /\ storage = [devices |-> JList(<<"a", "b">>), connected |-> JBool(TRUE)]
    /\ timers # {}

\* C7: at most one timer is pending, and it is the one of the last trigger;
\* a timer is pending exactly when there was a trigger since the last expiry,
\* so the triggers of one window end in one expiry and one rebuild; and a
\* rebuild reads a URL the active tab had at or after the last trigger.
C7_Debounce ==
    /\ Cardinality(timers) <= 1
    /\ timers \subseteq {updateContextMenuTimeout}
    /\ (burst = 0) <=> (timers = {})
    /\ ev.kind = "query" => ev.url \in seenSince

\* One expiry, and one rebuild, after two or more triggers.
C7_Witness ==
    /\ ev.kind = "timer"
    /\ ev.n >= 2
    /\ timers = {}
    /\ Len(rebuilds) = 1

\* C8: the context menu never holds more than one entry.
C8_OneEntry == Len(menu) <= 1

\* A rebuild has created the entry while another rebuild is executing.
C8_Witness ==
    /\ ev.kind = "query"
    /\ Len(menu) = 1
    /\ rebuilds # <<>>

\* The classification as the specification states it.
ClaimedSpecial(url) ==
    \/ ~Truthy(url)
    \/ \E i \in DOMAIN SPECIAL_PROTOCOLS : StartsWith(url.s, SPECIAL_PROTOCOLS[i])

\* C9: every place that classifies a URL answers 'special' for an undefined or
\* empty URL and for a URL starting with a special scheme, 'not special'
\* otherwise.
C9_Classification ==
    /\ cMenu # "none" => cMenu = Class(ClaimedSpecial(cUrl))
    /\ cIcon # "none" => cIcon = Class(ClaimedSpecial(cUrl))
    /\ cPopup # "none" => cPopup = Class(ClaimedSpecial(cUrl))

\* C10: a send with no channel open, or whose postMessage throws, returns
\* false, raises nothing and posts nothing (with no channel, postMessage is
\* not even called), and leaves the handle and the record as they were.
C10_SendFails ==
    [][(ev'.called /\ (nmhPort = 0 \/ ev'.tx = "fail")) =>
           /\ ~ev'.ret
           /\ ~ev'.raised
           /\ out' = <<>>
           /\ nmhPort = 0 => ev'.tx = "none"
           /\ nmhPort' = nmhPort
           /\ storage' = storage
           /\ writes' = writes]_vars

\* A send after the channel was disconnected.
C10_Witness ==
    /\ ev.called
    /\ ~ev.ret
    /\ nmhPort = 0
    /\ discAt >= 1

\* An inbound message the protocol recognizes and acts on.
WellFormedInbound(m) ==
    \/ m = Msg("connected", JBool(TRUE))
    \/ (m.shape = "object" /\ m.tstr /\ m.type = "devices" /\ m.data.t = "array")

\* C11: the handling of an inbound message that is neither {type:'connected',
\* data:true} nor a 'devices' message with a device list, and of an internal
\* message that is no 'share', leaves the record, the pending sets, the handle
\* and the debounce timer as they were and posts nothing.
C11_MalformedDropped ==
    [][((ev'.kind = "nmh" /\ ~WellFormedInbound(ev'.msg))
          \/ (ev'.kind = "runtime" /\ ~IsShare(ev'.msg))) =>
           /\ storage' = storage
           /\ writes' = writes
           /\ nmhPort' = nmhPort
           /\ timers' = timers
           /\ updateContextMenuTimeout' = updateContextMenuTimeout
           /\ out' = <<>>]_vars

\* C12: a connect() whose connectNative throws returns to its caller (which
\* goes on to its tab query), leaves the handle empty and no port open, and
\* the record is, once the pending sets have completed, {devices: [],
\* connected: false}.
C12_OpenFailure ==
    [][ev'.kind = "startupFailed" =>
           /\ nmhPort' = 0
           /\ \A p \in DOMAIN ports' : ~ports'[p].open
           /\ Len(ports') = Len(ports)
           /\ pendingInit' = pendingInit + 1
           /\ writes' = Append(writes, [items |-> Cleared, cont |-> FALSE])
           /\ Drain(storage', writes') = Cleared]_vars

\* A connect() failed after an earlier one had opened a channel, which it
\* closed; the record an earlier session left is still in the store.
C12_Witness ==
    /\ ev.kind = "startupFailed"
    /\ Len(ports) = 1
    /\ ~ports[1].open
    /\ Len(writes) = 1
    /\ storage = [devices |-> JList(<<"a">>), connected |-> JBool(TRUE)]

\* C13: only an install or startup event opens a port or sets the handle;
\* every other event leaves the ports that exist as many as they were and an
\* empty handle empty.
C13_NoReconnect ==
    [][ev'.kind \notin {"startup", "startupFailed"} =>
           /\ Len(ports') = Len(ports)
           /\ nmhPort' \in {nmhPort, 0}
           /\ \A p \in DOMAIN ports : ~ports[p].open => ~ports'[p].open]_vars

\* After a disconnect, a message of each kind and a set were handled and the
\* handle is still empty, no port open.
C13_Witness ==
    /\ discAt = 1
    /\ Len(ports) = 1
    /\ nmhPort = 0
    /\ OpenPorts = {}
    /\ storage = Cleared
    /\ ev.kind = "runtime"
    /\ ev.called

\* C15: at most one timer callback is executing.
C15_OneRebuild == Len(rebuilds) <= 1

\* C16: after a startup or install event and before any channel message, the
\* record is, once the pending sets have completed, {connected: false,
\* devices: []}.
C16_StartupRecord ==
    (ev.kind \in {"startup", "startupFailed"}) => Drain(storage, writes) = Cleared

\* No trigger is pending (neither a timer nor a handler that will make one)
\* and no rebuild is executing.
Quiescent == timers = {} /\ rebuilds = <<>> /\ pendingAct = <<>>

ShareEntry == [id |-> "openPopup", title |-> "Send with GSConnect", contexts |-> CONTEXT_TYPES]

C19_FailureContained ==
    [][/\ ev'.kind = "failed" =>
              /\ ~ev'.raised
              /\ Len(rebuilds') = Len(rebuilds) - 1
              /\ timers' = timers
              /\ updateContextMenuTimeout' = updateContextMenuTimeout
              /\ burst' = burst
       /\ (failure = "recent" /\ failure' = "earlier") =>
              /\ updateContextMenuTimeout' # 0
              /\ timers' = {updateContextMenuTimeout'}
       /\ (failure # "none" /\ ev'.kind = "timer") =>
              /\ Len(rebuilds') = Len(rebuilds) + 1
              /\ rebuilds'[Len(rebuilds')].pc = "removeAll"]_vars

\* The timer of a trigger made after a failure has expired and its rebuild
\* has created the entry.
C19_Witness ==
    /\ failure = "earlier"
    /\ ev.kind = "query"
    /\ menu = <<ShareEntry>>
    /\ rebuilds = <<>>

\* The port the latest connect() has opened, if it is open, is the one the
\* handle names.
LatestOpenIsHandle ==
    \A p \in DOMAIN ports : (p = Len(ports) /\ ports[p].open) => nmhPort = p

Stale ==
    /\ popupOpen
    /\ renders = <<>>
    /\ \E k \in DOMAIN popupContent :
           /\ popupContent[k] # Unavailable
           /\ <<popupContent[k]>> # RenderRecord(<<>>, storage)

\* C18: while the popup is open, a change of the record is eventually
\* followed by a render from the new record (or the popup is closed): the
\* popup does not keep showing what the record no longer holds.
C18_PopupFollowsRecord == Stale ~> ~Stale

====
